---- MODULE Spec2Model ----
(***************************************************************************)
(* Model of the AQI acquisition and marker reconciliation logic of         *)
(* src/map-my-aqi/src/pages/map.jsx: the fetch client fetchAQIData, the    *)
(* point query handleMapClick (invoked by MapClickHandler) and the batch   *)
(* load loadMumbaiAQI (invoked once by useEffect on mount).                *)
(*                                                                         *)
(* JavaScript runs the component on one event loop: the code between two   *)
(* awaits is atomic.  Each async function is therefore cut at its await of *)
(* fetchAQIData: one action issues the request, one action resumes the     *)
(* function with the provider's response and runs it to its next await or  *)
(* to its end.  Coordinates are in micro-degrees (18.921984 -> 18921984).  *)
(***************************************************************************)
EXTENDS Integers, Sequences, FiniteSets, TLC

VARIABLES
    markers,         \* useState([])    map.jsx:65
    isLoading,       \* useState(false) map.jsx:66
    batchPc,         \* position of loadMumbaiAQI: "unmounted", "fetching", "done", "rejected"
    batchIdx,        \* index in importantLocations of the landmark being fetched
    updatedMarkers,  \* the accumulator of loadMumbaiAQI, map.jsx:82
    batchResults,    \* what fetchAQIData gave loadMumbaiAQI for each landmark so far
    clicks,          \* one record per map click: the handleMapClick invocation it started
    requests,        \* number of outbound requests per coordinate (fetch(url), map.jsx:34)
    alertCount,      \* number of calls of alert(), map.jsx:75
    errorLog,        \* number of calls of console.error by the reconciler, map.jsx:74,88
    unhandled,       \* promises rejected with nobody handling the rejection
    probe            \* the single fetchAQIData call of the fetch-client specification

vars == <<markers, isLoading, batchPc, batchIdx, updatedMarkers, batchResults,
          clicks, requests, alertCount, errorLog, unhandled, probe>>

-----------------------------------------------------------------------------
(* Bounds *)

MaxClicks == 2

-----------------------------------------------------------------------------
(* Data *)

importantLocations ==
    << [name |-> "Gateway of India",             lat |-> 18921984, lng |-> 72834654],
       [name |-> "Chhatrapati Shivaji Terminus", lat |-> 18940200, lng |-> 72835600],
       [name |-> "Juhu Beach",                   lat |-> 19099000, lng |-> 72826000],
       [name |-> "Marine Drive",                 lat |-> 18945600, lng |-> 72824500],
       [name |-> "Bandra Kurla Complex",         lat |-> 19065300, lng |-> 72869700] >>

M == Len(importantLocations)

Coord(lat, lng) == [lat |-> lat, lng |-> lng]

LandmarkCoords == { Coord(importantLocations[i].lat, importantLocations[i].lng) : i \in 1..M }

\* event.latlng of a click: the map centre and one other point of the map
ClickCoords == { Coord(19076000, 72877700), Coord(18975000, 72825800) }

AllCoords == LandmarkCoords \cup ClickCoords

\* JSON values the provider puts in data.aqi: a number, or a string such as "-"
JNum(n) == [t |-> "number", n |-> n]
JStr(s) == [t |-> "string", s |-> s]

Aqis == { JNum(0), JNum(142), JNum(-1), JStr("-") }

NoCity == [present |-> FALSE]
City(n) == [present |-> TRUE, name |-> n]
Cities == { NoCity, City("Mumbai"), City("") }

NotJson == [json |-> FALSE]
ErrorBody == [json |-> TRUE, status |-> "error"]
OkBody(a, c) == [json |-> TRUE, status |-> "ok", aqi |-> a, city |-> c]
Bodies == { NotJson, ErrorBody } \cup { OkBody(a, c) : a \in Aqis, c \in Cities }

HttpStatuses == { 199, 200, 299, 300, 404, 500 }

Rejected == [transport |-> "rejected"]
Resolved(s, b) == [transport |-> "resolved", status |-> s, body |-> b]

\* every outcome of fetch(url)
Responses == { Rejected } \cup { Resolved(s, b) : s \in HttpStatuses, b \in Bodies }

\* the outcomes the network gives the reconciler: one of each kind
NetReplies ==
    { Rejected,
      Resolved(500, ErrorBody),
      Resolved(200, NotJson),
      Resolved(200, ErrorBody),
      Resolved(200, OkBody(JNum(142), NoCity)),
      Resolved(200, OkBody(JNum(142), City("Mumbai"))),
      Resolved(200, OkBody(JStr("-"), City(""))) }

-----------------------------------------------------------------------------
(* AQI Fetch Client *)

\* faulty variant: redirects and every other status below 400 count as success
ResponseOkLoose(status) == status >= 200 /\ status < 400

\* response.ok of the Fetch API
ResponseOk(status) == status >= 200 /\ status <= 299

Return(a, n) == [ok |-> TRUE, aqi |-> a, name |-> n]
Throw(e) == [ok |-> FALSE, error |-> e]

\* the try block of fetchAQIData
fetchTry(resp) ==
    IF resp.transport = "rejected" THEN Throw("TypeError: Failed to fetch")
    ELSE IF ~ResponseOk(resp.status) THEN Throw("HTTP error!")
    ELSE IF ~resp.body.json THEN Throw("SyntaxError")
    ELSE IF resp.body.status = "ok"
         THEN IF resp.body.city.present
              THEN Return(resp.body.aqi, resp.body.city.name)
              ELSE Throw("TypeError: data.data.city is undefined")
         ELSE Throw("Invalid data received from API.")

\* fetchAQIData: the catch block logs and rethrows
fetchAQIData(resp) ==
    LET r == fetchTry(resp)
    IN  IF r.ok THEN r ELSE Throw(r.error)

\* fetch(url): one outbound request for the coordinate
IssueRequest(req, lat, lng) == [req EXCEPT ![Coord(lat, lng)] = @ + 1]

\* what the caller keeps of a settled fetchAQIData call
NoResult == [ok |-> FALSE, pending |-> TRUE]
Failed == [ok |-> FALSE, pending |-> FALSE]
Outcome(r) == IF r.ok THEN [ok |-> TRUE, pending |-> FALSE, aqi |-> r.aqi, name |-> r.name]
              ELSE Failed

NoProbe == [pc |-> "none"]

-----------------------------------------------------------------------------
(* Marker Reconciler *)

Init ==
    /\ markers = << >>
    /\ isLoading = FALSE
    /\ batchPc = "unmounted"
    /\ batchIdx = 0
    /\ updatedMarkers = << >>
    /\ batchResults = << >>
    /\ clicks = << >>
    /\ requests = [c \in AllCoords |-> 0]
    /\ alertCount = 0
    /\ errorLog = 0
    /\ unhandled = 0
    /\ probe = NoProbe

\* faulty variant: the fetches of all landmarks are started together (Promise.all)
MountFanOut ==
    /\ batchPc = "unmounted"
    /\ updatedMarkers' = << >>
    /\ batchIdx' = 1
    /\ batchPc' = "fetching"
    /\ requests' = [c \in AllCoords |-> IF c \in LandmarkCoords THEN requests[c] + 1
                                        ELSE requests[c]]
    /\ UNCHANGED <<markers, isLoading, batchResults, clicks, alertCount, errorLog,
                   unhandled, probe>>

\* useEffect(() => { loadMumbaiAQI(); }, []): loadMumbaiAQI runs to its first await
Mount ==
    /\ batchPc = "unmounted"
    /\ updatedMarkers' = << >>
    /\ batchIdx' = 1
    /\ batchPc' = "fetching"
    /\ requests' = IssueRequest(requests, importantLocations[1].lat, importantLocations[1].lng)
    /\ UNCHANGED <<markers, isLoading, batchResults, clicks, alertCount, errorLog,
                   unhandled, probe>>

Pushed(acc, location, a) ==
    Append(acc, [name |-> location.name, lat |-> location.lat, lng |-> location.lng, aqi |-> a])

JUndefined == [t |-> "undefined"]

\* faulty variant: unshift instead of push
loadIterationUnshift(acc, location, r) ==
    IF r.ok
    THEN [acc |-> << [name |-> location.name, lat |-> location.lat, lng |-> location.lng,
                      aqi |-> r.aqi] >> \o acc,
          logged |-> 0, escaped |-> FALSE]
    ELSE [acc |-> acc, logged |-> 1, escaped |-> FALSE]

\* faulty variant: the push is outside the try, so a failing landmark is pushed too
loadIterationPushAlways(acc, location, r) ==
    IF r.ok
    THEN [acc |-> Pushed(acc, location, r.aqi), logged |-> 0, escaped |-> FALSE]
    ELSE [acc |-> Pushed(acc, location, JUndefined), logged |-> 1, escaped |-> FALSE]

\* faulty variant: no try/catch around the fetch of a landmark
loadIterationNoCatch(acc, location, r) ==
    IF r.ok
    THEN [acc |-> Pushed(acc, location, r.aqi), logged |-> 0, escaped |-> FALSE]
    ELSE [acc |-> acc, logged |-> 0, escaped |-> TRUE]

\* one iteration of the loop of loadMumbaiAQI, after its await: try { push } catch { log }
loadIteration(acc, location, r) ==
    IF r.ok
    THEN [acc |-> Pushed(acc, location, r.aqi), logged |-> 0, escaped |-> FALSE]
    ELSE [acc |-> acc, logged |-> 1, escaped |-> FALSE]

\* faulty variant: setMarkers(updatedMarkers) inside the loop, after every landmark
LoadSettleEager(resp) ==
    /\ batchPc = "fetching"
    /\ LET location == importantLocations[batchIdx]
           r == fetchAQIData(resp)
           it == loadIteration(updatedMarkers, location, r)
       IN  /\ batchResults' = Append(batchResults, Outcome(r))
           /\ updatedMarkers' = it.acc
           /\ errorLog' = errorLog + it.logged
           /\ markers' = it.acc
           /\ IF batchIdx < M
              THEN /\ batchIdx' = batchIdx + 1
                   /\ requests' = IssueRequest(requests, importantLocations[batchIdx + 1].lat,
                                               importantLocations[batchIdx + 1].lng)
                   /\ UNCHANGED <<batchPc, unhandled>>
              ELSE /\ batchPc' = "done"
                   /\ UNCHANGED <<batchIdx, requests, unhandled>>
    /\ UNCHANGED <<isLoading, clicks, alertCount, probe>>

\* faulty variant: the batch drops its result when a point query started meanwhile
LoadSettleGuarded(resp) ==
    /\ batchPc = "fetching"
    /\ LET location == importantLocations[batchIdx]
           r == fetchAQIData(resp)
           it == loadIteration(updatedMarkers, location, r)
       IN  /\ batchResults' = Append(batchResults, Outcome(r))
           /\ updatedMarkers' = it.acc
           /\ errorLog' = errorLog + it.logged
           /\ IF batchIdx < M
              THEN /\ batchIdx' = batchIdx + 1
                   /\ requests' = IssueRequest(requests, importantLocations[batchIdx + 1].lat,
                                               importantLocations[batchIdx + 1].lng)
                   /\ UNCHANGED <<batchPc, markers, unhandled>>
              ELSE /\ markers' = IF clicks = << >> THEN it.acc ELSE markers
                   /\ batchPc' = "done"
                   /\ UNCHANGED <<batchIdx, requests, unhandled>>
    /\ UNCHANGED <<isLoading, clicks, alertCount, probe>>

\* loadMumbaiAQI resumes with the response for landmark batchIdx
LoadSettle(resp) ==
    /\ batchPc = "fetching"
    /\ LET location == importantLocations[batchIdx]
           r == fetchAQIData(resp)
           it == loadIteration(updatedMarkers, location, r)
       IN  /\ batchResults' = Append(batchResults, Outcome(r))
           /\ updatedMarkers' = it.acc
           /\ errorLog' = errorLog + it.logged
           /\ IF it.escaped
              THEN /\ batchPc' = "rejected"
                   /\ unhandled' = unhandled + 1
                   /\ UNCHANGED <<batchIdx, requests, markers>>
              ELSE IF batchIdx < M
              THEN /\ batchIdx' = batchIdx + 1
                   /\ requests' = IssueRequest(requests, importantLocations[batchIdx + 1].lat,
                                               importantLocations[batchIdx + 1].lng)
                   /\ UNCHANGED <<batchPc, markers, unhandled>>
              ELSE /\ markers' = it.acc
                   /\ batchPc' = "done"
                   /\ UNCHANGED <<batchIdx, requests, unhandled>>
    /\ UNCHANGED <<isLoading, clicks, alertCount, probe>>

\* the click handler of MapClickHandler calls handleMapClick, which runs to its await
Click(c) ==
    /\ batchPc # "unmounted"
    /\ Len(clicks) < MaxClicks
    /\ isLoading' = TRUE
    /\ requests' = IssueRequest(requests, c.lat, c.lng)
    /\ clicks' = Append(clicks, [lat |-> c.lat, lng |-> c.lng, pc |-> "awaiting",
                                 result |-> NoResult, settle |-> "pending"])
    /\ UNCHANGED <<markers, batchPc, batchIdx, updatedMarkers, batchResults, alertCount,
                   errorLog, unhandled, probe>>

ClickMarker(lat, lng, r) == [lat |-> lat, lng |-> lng, aqi |-> r.aqi, name |-> r.name]

\* faulty variant: the new marker is added to the marker set
handleMapClickAppend(mk, lat, lng, r) ==
    IF r.ok
    THEN [markers |-> Append(mk, ClickMarker(lat, lng, r)),
          logged |-> 0, alerts |-> 0, isLoading |-> FALSE, escaped |-> FALSE]
    ELSE [markers |-> mk, logged |-> 1, alerts |-> 1, isLoading |-> FALSE, escaped |-> FALSE]

\* faulty variant: the catch block clears the marker set
handleMapClickClear(mk, lat, lng, r) ==
    IF r.ok
    THEN [markers |-> << ClickMarker(lat, lng, r) >>,
          logged |-> 0, alerts |-> 0, isLoading |-> FALSE, escaped |-> FALSE]
    ELSE [markers |-> << >>, logged |-> 1, alerts |-> 1, isLoading |-> FALSE,
          escaped |-> FALSE]

\* faulty variant: setIsLoading(false) at the end of the try block, not in a finally
handleMapClickNoFinally(mk, lat, lng, r) ==
    IF r.ok
    THEN [markers |-> << ClickMarker(lat, lng, r) >>,
          logged |-> 0, alerts |-> 0, isLoading |-> FALSE, escaped |-> FALSE]
    ELSE [markers |-> mk, logged |-> 1, alerts |-> 1, isLoading |-> TRUE, escaped |-> FALSE]

\* faulty variant: the catch block only logs
handleMapClickSilent(mk, lat, lng, r) ==
    IF r.ok
    THEN [markers |-> << ClickMarker(lat, lng, r) >>,
          logged |-> 0, alerts |-> 0, isLoading |-> FALSE, escaped |-> FALSE]
    ELSE [markers |-> mk, logged |-> 1, alerts |-> 0, isLoading |-> FALSE, escaped |-> FALSE]

\* faulty variant: the catch block rethrows after the alert
handleMapClickRethrow(mk, lat, lng, r) ==
    IF r.ok
    THEN [markers |-> << ClickMarker(lat, lng, r) >>,
          logged |-> 0, alerts |-> 0, isLoading |-> FALSE, escaped |-> FALSE]
    ELSE [markers |-> mk, logged |-> 1, alerts |-> 1, isLoading |-> FALSE, escaped |-> TRUE]

\* handleMapClick after its await: try { setMarkers } catch { log; alert } finally { setIsLoading }
handleMapClick(mk, lat, lng, r) ==
    IF r.ok
    THEN [markers |-> << ClickMarker(lat, lng, r) >>,
          logged |-> 0, alerts |-> 0, isLoading |-> FALSE, escaped |-> FALSE]
    ELSE [markers |-> mk, logged |-> 1, alerts |-> 1, isLoading |-> FALSE, escaped |-> FALSE]

\* the try/catch of the click handler around await onMapClick(lat, lng)
MapClickHandler(escaped) ==
    IF escaped THEN [logged |-> 1, escaped |-> FALSE] ELSE [logged |-> 0, escaped |-> FALSE]

\* faulty variant: a failed request is sent once more before the failure is handled
ClickSettleRetry(q, resp) ==
    /\ q \in 1..Len(clicks)
    /\ clicks[q].pc = "awaiting"
    /\ LET r == fetchAQIData(resp)
           h == handleMapClick(markers, clicks[q].lat, clicks[q].lng, r)
           outer == MapClickHandler(h.escaped)
       IN  /\ markers' = h.markers
           /\ isLoading' = h.isLoading
           /\ alertCount' = alertCount + h.alerts
           /\ errorLog' = errorLog + h.logged + outer.logged
           /\ unhandled' = unhandled + (IF outer.escaped THEN 1 ELSE 0)
           /\ requests' = IF r.ok THEN requests
                          ELSE IssueRequest(requests, clicks[q].lat, clicks[q].lng)
           /\ clicks' = [clicks EXCEPT ![q] =
                            [@ EXCEPT !.pc = "settled", !.result = Outcome(r),
                                      !.settle = IF h.escaped THEN "rejected" ELSE "fulfilled"]]
    /\ UNCHANGED <<batchPc, batchIdx, updatedMarkers, batchResults, probe>>

\* faulty variant: only the most recent click may write the marker set
ClickSettleLatestOnly(q, resp) ==
    /\ q \in 1..Len(clicks)
    /\ clicks[q].pc = "awaiting"
    /\ LET r == fetchAQIData(resp)
           h == handleMapClick(markers, clicks[q].lat, clicks[q].lng, r)
           outer == MapClickHandler(h.escaped)
       IN  /\ markers' = IF q = Len(clicks) THEN h.markers ELSE markers
           /\ isLoading' = h.isLoading
           /\ alertCount' = alertCount + h.alerts
           /\ errorLog' = errorLog + h.logged + outer.logged
           /\ unhandled' = unhandled + (IF outer.escaped THEN 1 ELSE 0)
           /\ clicks' = [clicks EXCEPT ![q] =
                            [@ EXCEPT !.pc = "settled", !.result = Outcome(r),
                                      !.settle = IF h.escaped THEN "rejected" ELSE "fulfilled"]]
    /\ UNCHANGED <<batchPc, batchIdx, updatedMarkers, batchResults, requests, probe>>

\* handleMapClick of click q resumes with the response and runs to its end
ClickSettle(q, resp) ==
    /\ q \in 1..Len(clicks)
    /\ clicks[q].pc = "awaiting"
    /\ LET r == fetchAQIData(resp)
           h == handleMapClick(markers, clicks[q].lat, clicks[q].lng, r)
           outer == MapClickHandler(h.escaped)
       IN  /\ markers' = h.markers
           /\ isLoading' = h.isLoading
           /\ alertCount' = alertCount + h.alerts
           /\ errorLog' = errorLog + h.logged + outer.logged
           /\ unhandled' = unhandled + (IF outer.escaped THEN 1 ELSE 0)
           /\ clicks' = [clicks EXCEPT ![q] =
                            [@ EXCEPT !.pc = "settled", !.result = Outcome(r),
                                      !.settle = IF h.escaped THEN "rejected" ELSE "fulfilled"]]
    /\ UNCHANGED <<batchPc, batchIdx, updatedMarkers, batchResults, requests, probe>>

Next ==
    \/ Mount
    \/ \E resp \in NetReplies : LoadSettle(resp)
    \/ \E c \in ClickCoords : Click(c)
    \/ \E q \in 1..MaxClicks, resp \in NetReplies : ClickSettle(q, resp)

Spec == Init /\ [][Next]_vars

-----------------------------------------------------------------------------
(* The fetch client on its own: one call of fetchAQIData, for every         *)
(* coordinate and every outcome of the request.                             *)

FetchInit ==
    /\ markers = << >>
    /\ isLoading = FALSE
    /\ batchPc = "unmounted"
    /\ batchIdx = 0
    /\ updatedMarkers = << >>
    /\ batchResults = << >>
    /\ clicks = << >>
    /\ requests = [c \in AllCoords |-> 0]
    /\ alertCount = 0
    /\ errorLog = 0
    /\ unhandled = 0
    /\ probe \in { [pc |-> "call", lat |-> c.lat, lng |-> c.lng, resp |-> resp,
                   result |-> NoResult] : c \in AllCoords, resp \in Responses }

\* fetchAQIData(lat, lng) runs to its await of fetch(url)
FetchCall ==
    /\ probe.pc = "call"
    /\ requests' = IssueRequest(requests, probe.lat, probe.lng)
    /\ probe' = [probe EXCEPT !.pc = "awaiting"]
    /\ UNCHANGED <<markers, isLoading, batchPc, batchIdx, updatedMarkers, batchResults,
                   clicks, alertCount, errorLog, unhandled>>

\* the request settles and fetchAQIData returns or throws
FetchSettle ==
    /\ probe.pc = "awaiting"
    /\ probe' = [probe EXCEPT !.pc = "settled", !.result = fetchAQIData(probe.resp)]
    /\ UNCHANGED <<markers, isLoading, batchPc, batchIdx, updatedMarkers, batchResults,
                   clicks, requests, alertCount, errorLog, unhandled>>

FetchNext == FetchCall \/ FetchSettle

SpecFetch == FetchInit /\ [][FetchNext]_vars

-----------------------------------------------------------------------------
(* Properties *)

Awaiting(q) == q \in 1..Len(clicks) /\ clicks[q].pc = "awaiting"
SettledOk(q) == q \in 1..Len(clicks) /\ clicks[q].pc = "settled" /\ clicks[q].result.ok
SettledFailed(q) == q \in 1..Len(clicks) /\ clicks[q].pc = "settled" /\ ~clicks[q].result.ok

FailedLandmarks == { k \in 1..Len(batchResults) : ~batchResults[k].ok }
SucceededLandmarks == { k \in 1..Len(batchResults) : batchResults[k].ok }

\* the markers of the landmarks among the first n whose fetch succeeded, in list order
RECURSIVE SucceedingMarkers(_, _)
SucceedingMarkers(results, n) ==
    IF n = 0 THEN << >>
    ELSE LET before == SucceedingMarkers(results, n - 1)
         IN  IF results[n].ok
             THEN Append(before, [name |-> importantLocations[n].name,
                                  lat |-> importantLocations[n].lat,
                                  lng |-> importantLocations[n].lng,
                                  aqi |-> results[n].aqi])
             ELSE before

\* C1: after a batch load with no point query, the marker set is exactly the
\* markers of the succeeding landmarks (name, coordinates, returned AQI), in
\* landmark-list order, and holds nothing for a failing landmark.
C1_BatchMarkers ==
    (batchPc = "done" /\ clicks = << >>) =>
        /\ markers = SucceedingMarkers(batchResults, M)
        /\ Len(markers) = Cardinality(SucceededLandmarks)

\* Juhu Beach fails, the other four succeed
C1_Witness ==
    /\ batchPc = "done" /\ clicks = << >>
    /\ FailedLandmarks = {3}
    /\ Len(markers) = 4

\* the step in which the handleMapClick of click q resumes
SettlesNow(q) == Awaiting(q) /\ clicks'[q].pc = "settled"

\* C2: a point query whose fetch succeeds replaces the whole marker set by one
\* marker with the clicked coordinates and the AQI and name the fetch returned.
C2_PointQuerySuccess ==
    [][\A q \in 1..Len(clicks) :
         (SettlesNow(q) /\ clicks'[q].result.ok) =>
             markers' = << [lat |-> clicks[q].lat, lng |-> clicks[q].lng,
                            aqi |-> clicks'[q].result.aqi,
                            name |-> clicks'[q].result.name] >>]_vars

\* a succeeding point query has replaced the several markers of the batch
C2_Witness ==
    /\ batchPc = "done" /\ Cardinality(SucceededLandmarks) >= 2
    /\ \E q \in 1..Len(clicks) :
         /\ SettledOk(q)
         /\ markers = << [lat |-> clicks[q].lat, lng |-> clicks[q].lng,
                          aqi |-> clicks[q].result.aqi, name |-> clicks[q].result.name] >>

\* C3: a point query whose fetch fails leaves the marker set as it was.
C3_PointQueryFailure ==
    [][\A q \in 1..Len(clicks) :
         (SettlesNow(q) /\ ~clicks'[q].result.ok) => markers' = markers]_vars

\* a point query has failed and the markers of the batch are still there
C3_Witness ==
    /\ \E q \in 1..Len(clicks) : SettledFailed(q)
    /\ \A q \in 1..Len(clicks) : ~SettledOk(q)
    /\ batchPc = "done" /\ Len(markers) >= 2

\* the marker stems from a successful fetch made for its coordinates
FromSuccessfulFetch(m) ==
    \/ \E k \in SucceededLandmarks :
         /\ importantLocations[k].lat = m.lat /\ importantLocations[k].lng = m.lng
         /\ batchResults[k].aqi = m.aqi
    \/ \E q \in 1..Len(clicks) :
         /\ SettledOk(q)
         /\ clicks[q].lat = m.lat /\ clicks[q].lng = m.lng
         /\ clicks[q].result.aqi = m.aqi

\* C4: every marker of the marker set stems from a fetch that succeeded and
\* carries the AQI of that response; a failed fetch contributes no marker.
C4_OnlySuccessfulFetches ==
    \A i \in 1..Len(markers) : FromSuccessfulFetch(markers[i])

\* markers are shown although fetches of the batch and of a point query failed
C4_Witness ==
    /\ markers # << >>
    /\ FailedLandmarks # {}
    /\ \E q \in 1..Len(clicks) : SettledFailed(q)

NothingOutstanding == batchPc # "fetching" /\ \A q \in 1..Len(clicks) : ~Awaiting(q)

\* C5: when no fetch sequence is outstanding the loading flag is false.
C5_FlagReleased == NothingOutstanding => ~isLoading

\* every sequence has settled, one of them a failed point query
C5_Witness ==
    /\ batchPc = "done"
    /\ Len(clicks) = MaxClicks
    /\ \A q \in 1..Len(clicks) : ~Awaiting(q)
    /\ \E q \in 1..Len(clicks) : SettledFailed(q)
    /\ ~isLoading

\* C6: while a batch load or a point query is outstanding the loading flag is true.
C6_FlagHeld == (batchPc = "fetching" \/ \E q \in 1..Len(clicks) : Awaiting(q)) => isLoading

LandmarkRequests(k) == requests[Coord(importantLocations[k].lat, importantLocations[k].lng)]

\* C7: a failing landmark does not abort the batch: the landmarks are attempted
\* once each, in turn, and after the last one the marker set is written.
C7_BatchNotAborted ==
    /\ batchPc # "rejected"
    /\ batchPc = "fetching" =>
         /\ Len(batchResults) = batchIdx - 1
         /\ \A k \in 1..M : LandmarkRequests(k) = IF k <= batchIdx THEN 1 ELSE 0
    /\ Len(batchResults) = M => batchPc = "done"
    /\ batchPc = "done" =>
         /\ Len(batchResults) = M
         /\ \A k \in 1..M : LandmarkRequests(k) = 1
         /\ clicks = << >> => markers = updatedMarkers

\* the first landmark failed and the batch went through to its write
C7_Witness ==
    /\ batchPc = "done"
    /\ 1 \in FailedLandmarks
    /\ SucceededLandmarks # {}
    /\ clicks = << >> /\ markers # << >>

\* C8: alert() is called once for each failing point query and never otherwise.
C8_AlertPerFailedQuery ==
    alertCount = Cardinality({ q \in 1..Len(clicks) : SettledFailed(q) })

\* a landmark failed, one point query succeeded and one failed: one alert
C8_Witness ==
    /\ FailedLandmarks # {}
    /\ \E q \in 1..Len(clicks) : SettledOk(q)
    /\ \E q \in 1..Len(clicks) : SettledFailed(q)
    /\ alertCount = 1

\* C9: no failure leaves loadMumbaiAQI or handleMapClick as a thrown error.
C9_NothingEscapes ==
    /\ unhandled = 0
    /\ batchPc # "rejected"
    /\ \A q \in 1..Len(clicks) :
         /\ clicks[q].pc = "settled" => clicks[q].settle = "fulfilled"
         /\ clicks[q].pc = "awaiting" => clicks[q].settle = "pending"

\* every fetch of the batch failed, a point query failed, and all settled normally
C9_Witness ==
    /\ batchPc = "done" /\ FailedLandmarks = 1..M
    /\ \E q \in 1..Len(clicks) : SettledFailed(q) /\ clicks[q].settle = "fulfilled"

NonNegativeInteger(v) == v.t = "number" /\ v.n >= 0

\* C10: a call of fetchAQIData that returns, returns an AQI that is a
\* non-negative integer.
C10_AqiNonNegativeInteger ==
    (probe.pc = "settled" /\ probe.result.ok) => NonNegativeInteger(probe.result.aqi)

\* a step of loadMumbaiAQI: it starts, or it resumes with a landmark's response
BatchStep == batchPc' # batchPc \/ batchResults' # batchResults

\* C11: the batch load writes the marker set once, in the step that handles the
\* response of the last landmark; no earlier step of the batch changes it.
C11_SingleFinalWrite ==
    [][BatchStep =>
         IF Len(batchResults') = M
         THEN batchPc' = "done" /\ markers' = updatedMarkers'
         ELSE markers' = markers]_vars

\* landmarks have been accumulated and the marker set does not show them yet
C11_Witness ==
    /\ batchPc = "fetching"
    /\ Len(updatedMarkers) >= 2
    /\ markers = << >>
    /\ clicks = << >>

RECURSIVE LandmarkRequestsUpTo(_)
LandmarkRequestsUpTo(k) == IF k = 0 THEN 0 ELSE LandmarkRequestsUpTo(k - 1) + LandmarkRequests(k)

\* requests of the batch that have been issued and have not settled
BatchOutstanding == LandmarkRequestsUpTo(M) - Len(batchResults)

\* C12: the batch load fetches one landmark at a time, in list order: at most
\* one of its requests is outstanding, and the request for a landmark is issued
\* only when the fetches of all landmarks before it have settled.
C12_SequentialBatch ==
    /\ BatchOutstanding = IF batchPc = "fetching" THEN 1 ELSE 0
    /\ \A k \in 2..M : LandmarkRequests(k) > 0 =>
         /\ LandmarkRequests(k - 1) > 0
         /\ Len(batchResults) >= k - 1

\* the third landmark is being fetched after the second one failed; the fourth is not started
C12_Witness ==
    /\ batchPc = "fetching" /\ batchIdx = 3
    /\ 2 \in FailedLandmarks
    /\ LandmarkRequests(3) = 1 /\ LandmarkRequests(4) = 0
    /\ BatchOutstanding = 1

BatchUntouched ==
    /\ batchPc' = batchPc /\ batchIdx' = batchIdx
    /\ updatedMarkers' = updatedMarkers /\ batchResults' = batchResults

\* C13: a point query and the batch load do not cancel each other and the last
\* write wins: the completion of the batch writes the batch result over
\* whatever a point query wrote, a succeeding point query writes its marker
\* over whatever the batch wrote, and neither touches the other's progress.
C13_LastWriteWins ==
    [][/\ (batchPc = "fetching" /\ batchPc' = "done") =>
            markers' = SucceedingMarkers(batchResults', M)
       /\ BatchStep => clicks' = clicks
       /\ Len(clicks') > Len(clicks) => BatchUntouched /\ markers' = markers
       /\ \A q \in 1..Len(clicks) :
            SettlesNow(q) =>
               /\ BatchUntouched
               /\ clicks'[q].result.ok =>
                    markers' = << [lat |-> clicks[q].lat, lng |-> clicks[q].lng,
                                   aqi |-> clicks'[q].result.aqi,
                                   name |-> clicks'[q].result.name] >>]_vars

\* the only point query succeeded, so it wrote its marker; the marker set holds
\* the batch result: the batch completed later and overwrote it
C13_Witness ==
    /\ Len(clicks) = 1 /\ SettledOk(1)
    /\ batchPc = "done"
    /\ markers # << >>
    /\ markers = SucceedingMarkers(batchResults, M)

\* C14: the completion of a sequence that is stale, because a newer sequence
\* was started after it, does not modify the marker set.  The batch load is
\* started before every click, and click q before click q + 1.
C14_StaleCompletionDropped ==
    [][/\ (batchPc = "fetching" /\ batchPc' = "done" /\ clicks # << >>) => markers' = markers
       /\ \A q \in 1..Len(clicks) :
            (SettlesNow(q) /\ q < Len(clicks)) => markers' = markers]_vars

ClicksAt(c) == { q \in 1..Len(clicks) : Coord(clicks[q].lat, clicks[q].lng) = c }

\* calls of fetchAQIData made by the batch load so far
BatchFetchCalls == Len(batchResults) + (IF batchPc = "fetching" THEN 1 ELSE 0)

\* C15: every call of fetchAQIData issues one request and none is repeated,
\* whether it succeeds or fails: the batch has issued one request per call,
\* M when it is done, and each point query has issued exactly one.
C15_OneRequestPerCall ==
    /\ LandmarkRequestsUpTo(M) = BatchFetchCalls
    /\ batchPc = "done" => LandmarkRequestsUpTo(M) = M
    /\ \A c \in ClickCoords : requests[c] = Cardinality(ClicksAt(c))

\* all five landmark fetches and a point query failed, and nothing was retried
C15_Witness ==
    /\ batchPc = "done" /\ Cardinality(FailedLandmarks) = M
    /\ LandmarkRequestsUpTo(M) = M
    /\ \E q \in 1..Len(clicks) :
         SettledFailed(q) /\ requests[Coord(clicks[q].lat, clicks[q].lng)] = 1

\* the request completed with a 2xx status and the body is JSON with status "ok"
OkStatus(resp) ==
    /\ resp.transport = "resolved"
    /\ resp.status \in 200..299
    /\ resp.body.json
    /\ resp.body.status = "ok"

\* C16 as stated: fetchAQIData returns a result if and only if the request
\* completed with a 2xx status and the body's status is "ok".
C16_Original ==
    probe.pc = "settled" => (probe.result.ok <=> OkStatus(probe.resp))

\* C16: fetchAQIData returns a result, the payload's aqi and city name, if and
\* only if the request completed with a 2xx status, the body's status is "ok"
\* and the payload has a city; in every other case it throws to its caller.
C16_SuccessIff ==
    probe.pc = "settled" =>
        IF OkStatus(probe.resp) /\ probe.resp.body.city.present
        THEN probe.result = Return(probe.resp.body.aqi, probe.resp.body.city.name)
        ELSE ~probe.result.ok /\ "error" \in DOMAIN probe.result

\* a 200 response with status "ok" and no city made the call throw
C16_Witness ==
    /\ probe.pc = "settled"
    /\ OkStatus(probe.resp) /\ ~probe.resp.body.city.present
    /\ ~probe.result.ok

-----------------------------------------------------------------------------
(* Every request eventually resolves or rejects: whenever a function waits  *)
(* for a response, the response arrives and the event loop resumes the      *)
(* function.  Nothing obliges the user to click.                            *)

\* for termination only the kind of outcome matters: one failure and one success
LiveReplies == { Rejected, Resolved(200, OkBody(JNum(142), City("Mumbai"))) }

FairNext ==
    \/ Mount
    \/ \E resp \in LiveReplies : LoadSettle(resp)
    \/ \E c \in ClickCoords : Click(c)
    \/ \E q \in 1..MaxClicks, resp \in LiveReplies : ClickSettle(q, resp)

FairSpec ==
    /\ Init
    /\ [][FairNext]_vars
    /\ WF_vars(\E resp \in LiveReplies : LoadSettle(resp))
    /\ \A q \in 1..MaxClicks : WF_vars(\E resp \in LiveReplies : ClickSettle(q, resp))

Idle == NothingOutstanding /\ ~isLoading

\* C17: when every request eventually settles, a started batch load ends, every
\* started point query settles, and the reconciler comes back to Idle.
C17_EventuallyIdle ==
    /\ (batchPc = "fetching") ~> (batchPc = "done")
    /\ \A q \in 1..MaxClicks :
         Awaiting(q) ~> (q \in 1..Len(clicks) /\ clicks[q].pc = "settled")
    /\ (~Idle) ~> Idle

\* the batch and every click have come and gone, and the reconciler is Idle
C17_Witness ==
    /\ Idle
    /\ batchPc = "done"
    /\ Len(clicks) = MaxClicks
    /\ \A q \in 1..Len(clicks) : clicks[q].settle = "fulfilled"

\* the marker a succeeding click q puts on the map
MarkerOf(q) == [lat |-> clicks[q].lat, lng |-> clicks[q].lng,
                aqi |-> clicks[q].result.aqi, name |-> clicks[q].result.name]

\* C18: when the response of a point query arrives after those of the other
\* point queries, the marker set becomes its marker if it succeeded, whether
\* or not it is the most recent click; if it failed the marker set stays, and
\* of two queries it still shows the marker of the other, succeeding one.
C18_LastArrivalWins ==
    [][\A q \in 1..Len(clicks) :
         (/\ SettlesNow(q)
          /\ Len(clicks) >= 2
          /\ \A o \in 1..Len(clicks) : o # q => clicks[o].pc = "settled") =>
            IF clicks'[q].result.ok
            THEN markers' = << [lat |-> clicks[q].lat, lng |-> clicks[q].lng,
                                aqi |-> clicks'[q].result.aqi,
                                name |-> clicks'[q].result.name] >>
            ELSE /\ markers' = markers
                 /\ \A o \in 1..Len(clicks) :
                      (Len(clicks) = 2 /\ o # q /\ SettledOk(o) /\ batchPc = "fetching")
                         => markers' = << MarkerOf(o) >>]_vars

\* two clicks at different points both succeeded and the batch has not written:
\* the marker is the one of the first click, so its response came in last,
\* after the second click was made and answered
C18_Witness ==
    /\ Len(clicks) = 2 /\ SettledOk(1) /\ SettledOk(2)
    /\ Coord(clicks[1].lat, clicks[1].lng) # Coord(clicks[2].lat, clicks[2].lng)
    /\ batchPc = "fetching"
    /\ markers = << MarkerOf(1) >>

IsLandmark(m, k) ==
    /\ DOMAIN m = {"name", "lat", "lng", "aqi"}
    /\ m.name = importantLocations[k].name
    /\ m.lat = importantLocations[k].lat
    /\ m.lng = importantLocations[k].lng

\* the markers are landmarks of the list, in the order of the list, none twice
IsLandmarkSubsequence(ms) ==
    /\ Len(ms) <= M
    /\ \A i \in 1..Len(ms) : \E k \in 1..M : IsLandmark(ms[i], k)
    /\ \A i, j \in 1..Len(ms) : \A k, l \in 1..M :
         (i < j /\ IsLandmark(ms[i], k) /\ IsLandmark(ms[j], l)) => k < l

IsPointMarker(ms) ==
    /\ Len(ms) = 1
    /\ \E q \in 1..Len(clicks) : SettledOk(q) /\ ms[1] = MarkerOf(q)
    /\ \A k \in 1..M : ~IsLandmark(ms[1], k)

\* C19: the marker set is empty, or the single marker of a point query, or a
\* sub-sequence of the landmark list in list order; never a mixture.
C19_MarkerSetShape ==
    \/ markers = << >>
    \/ IsPointMarker(markers)
    \/ IsLandmarkSubsequence(markers)

\* after a succeeding point query the batch wrote its landmarks, one of them missing
C19_Witness ==
    /\ \E q \in 1..Len(clicks) : SettledOk(q)
    /\ batchPc = "done" /\ FailedLandmarks = {2}
    /\ Len(markers) = M - 1
    /\ IsLandmarkSubsequence(markers)

====
